---- MODULE Spec2Model ----
(***************************************************************************)
(* Model of mcp_sheets_server.py: the credential lifecycle of              *)
(* get_credentials (load, validity check, refresh, consent, persist), the  *)
(* three service-handle factories, and the six tools plus the resource     *)
(* accessor, each of which obtains a handle and issues one remote call.    *)
(* One tool invocation runs at a time (the server is synchronous); every   *)
(* statement that touches the file system, the identity provider or the    *)
(* remote service is one step, and each such step may raise, which ends    *)
(* the invocation (the source has no try/except).                          *)
(***************************************************************************)
EXTENDS Integers, Sequences, FiniteSets, TLC

\* ---------------------------------------------------------------- bounds
MaxCalls == 3        \* tool invocations in one behaviour
MaxTime == 2         \* last value of the wall clock
Lifetime == 1        \* clock ticks an access token lives after it is minted
MaxRows == 3         \* rows the remote sheet range can hold

\* ------------------------------------------------------------ credentials
NoToken == 0
NoExpiry == 0

\* The Python value None bound to the local `creds` (line 28).
NoCreds == [isNone |-> TRUE, token |-> NoToken, refresh_token |-> FALSE, expiry |-> NoExpiry]

Cred(tok, rt, exp) == [isNone |-> FALSE, token |-> tok, refresh_token |-> rt, expiry |-> exp]

\* creds.expired, as read at line 41: the expiry, when set, has passed.
Expired(c, now) == c.expiry # NoExpiry /\ now >= c.expiry

\* creds.valid, as read at line 40: a token is present and it is not expired.
Valid(c, now) == c.token # NoToken /\ ~Expired(c, now)

\* line 40, buggy variants
NeedsLoginNoValidity(c, now) == c.isNone
NeedsLoginEager(c, now) == c.isNone \/ ~Valid(c, now) \/ c.refresh_token

\* line 40: if not creds or not creds.valid
NeedsLogin(c, now) == c.isNone \/ ~Valid(c, now)

\* line 41, buggy variants
CanRefreshNever(c, now) == FALSE
CanRefreshNoToken(c, now) == ~c.isNone /\ Expired(c, now)

\* line 41: if creds and creds.expired and creds.refresh_token
CanRefresh(c, now) == ~c.isNone /\ Expired(c, now) /\ c.refresh_token

\* pickle.dump / pickle.load of a credential (lines 37, 50): the object's
\* fields are written out as a flat tuple and read back positionally.
Pickle(c) == <<c.token, c.refresh_token, c.expiry>>
Unpickle(b) == Cred(b[1], b[2], b[3])

AbsentFile == [kind |-> "absent", bytes |-> <<>>]
CorruptFile == [kind |-> "corrupt", bytes |-> <<>>]
PickleFile(c) == [kind |-> "pickle", bytes |-> Pickle(c)]

\* ------------------------------------------------------------- tool inputs
Tools == {"list_spreadsheets", "read_sheet", "write_sheet", "append_sheet",
          "create_spreadsheet", "create_form", "get_sheet_resource"}

\* <<spreadsheet_id, range_name>> pairs: the stored range and one the remote
\* service does not have
Targets == {<<"abc123", "Sheet1">>, <<"abc123", "NoSuchTab">>}
\* The grids the host passes as `values`: empty, one row, two ragged rows
\* (one cell is written like a formula).
Grids == {<<>>, <<<<"a">>>>, <<<<"=1+1", "b">>, <<"c">>>>}

NoArgs == [spreadsheet_id |-> "", range_name |-> "", values |-> <<>>,
           title |-> "", description |-> "", max_results |-> 0]

\* The parameter maps the host may pass to each registered function
\* (signatures at lines 71, 99, 121, 147, 173, 199, 231; defaults included).
ArgSet(t) ==
    CASE t = "list_spreadsheets" ->
           {[NoArgs EXCEPT !.max_results = m] : m \in {1, 20}}
      [] t \in {"read_sheet", "get_sheet_resource"} ->
           {[NoArgs EXCEPT !.spreadsheet_id = x[1], !.range_name = x[2]] : x \in Targets}
      [] t \in {"write_sheet", "append_sheet"} ->
           {[NoArgs EXCEPT !.spreadsheet_id = "abc123", !.range_name = "Sheet1",
                           !.values = g] : g \in Grids}
           \cup {[NoArgs EXCEPT !.spreadsheet_id = "abc123", !.range_name = "NoSuchTab",
                                !.values = <<<<"a">>>>]}
      [] t = "create_spreadsheet" ->
           {[NoArgs EXCEPT !.title = "Budget"]}
      [] OTHER ->
           {[NoArgs EXCEPT !.title = "Survey", !.description = d] : d \in {"", "about"}}

\* Which factory each function calls (lines 81, 110, 133, 159, 183, 210, 242),
\* named by the API the factory builds (lines 57, 62, 67).
ApiOf(t) ==
    CASE t = "list_spreadsheets" -> "drive"
      [] t = "create_form" -> "forms"
      [] OTHER -> "sheets"

\* ---------------------------------------------------------------- requests
NoRequest == [method |-> "none", spreadsheetId |-> "", range |-> "",
              valueInputOption |-> "", values |-> <<>>, title |-> "",
              hasDescription |-> FALSE, description |-> "", pageSize |-> 0]

\* lines 111-114 and 243-246: values().get
ReadRequest(a) ==
    [NoRequest EXCEPT !.method = "get", !.spreadsheetId = a.spreadsheet_id,
                      !.range = a.range_name]

WriteRequestUserEntered(a) ==
    [NoRequest EXCEPT !.method = "update", !.spreadsheetId = a.spreadsheet_id,
                      !.range = a.range_name, !.valueInputOption = "USER_ENTERED",
                      !.values = a.values]

\* lines 134-141: values().update
WriteRequest(a) ==
    [NoRequest EXCEPT !.method = "update", !.spreadsheetId = a.spreadsheet_id,
                      !.range = a.range_name, !.valueInputOption = "RAW",
                      !.values = a.values]

AppendRequestAsUpdate(a) ==
    [NoRequest EXCEPT !.method = "update", !.spreadsheetId = a.spreadsheet_id,
                      !.range = a.range_name, !.valueInputOption = "RAW",
                      !.values = a.values]

\* lines 160-167: values().append
AppendRequest(a) ==
    [NoRequest EXCEPT !.method = "append", !.spreadsheetId = a.spreadsheet_id,
                      !.range = a.range_name, !.valueInputOption = "RAW",
                      !.values = a.values]

\* lines 82-86: files().list
ListRequest(a) == [NoRequest EXCEPT !.method = "files.list", !.pageSize = a.max_results]

\* lines 184-190: spreadsheets().create
CreateSpreadsheetRequest(a) ==
    [NoRequest EXCEPT !.method = "spreadsheets.create", !.title = a.title]

\* lines 211-221: forms().create; the description is set only when non-empty
CreateFormRequest(a) ==
    [NoRequest EXCEPT !.method = "forms.create", !.title = a.title,
                      !.hasDescription = (a.description # ""),
                      !.description = a.description]

RequestOf(t, a) ==
    CASE t = "list_spreadsheets" -> ListRequest(a)
      [] t \in {"read_sheet", "get_sheet_resource"} -> ReadRequest(a)
      [] t = "write_sheet" -> WriteRequest(a)
      [] t = "append_sheet" -> AppendRequest(a)
      [] t = "create_spreadsheet" -> CreateSpreadsheetRequest(a)
      [] OTHER -> CreateFormRequest(a)

\* ----------------------------------------------------------- remote service
\* The remote document service is not part of the repository; it is modelled
\* as the tool table describes it: one spreadsheet "abc123" with one tab
\* "Sheet1" holding a grid; update overwrites the range with the given grid,
\* append adds the rows after the existing ones, get returns the grid (the
\* key "values" is absent when the range is empty), RAW stores cells
\* literally and USER_ENTERED evaluates formula cells.
Interpret(cell) == IF cell = "=1+1" THEN "2" ELSE cell

StoredGrid(opt, g) ==
    IF opt = "RAW" THEN g
    ELSE [r \in DOMAIN g |-> [c \in DOMAIN g[r] |-> Interpret(g[r][c])]]

RECURSIVE CellCount(_)
CellCount(g) == IF g = <<>> THEN 0 ELSE Len(Head(g)) + CellCount(Tail(g))

RemoteAccepts(req, sh) ==
    CASE req.method = "get" ->
           req.spreadsheetId = "abc123" /\ req.range = "Sheet1"
      [] req.method = "update" ->
           /\ req.spreadsheetId = "abc123" /\ req.range = "Sheet1"
           /\ Len(req.values) <= MaxRows
      [] req.method = "append" ->
           /\ req.spreadsheetId = "abc123" /\ req.range = "Sheet1"
           /\ Len(sh) + Len(req.values) <= MaxRows
      [] OTHER -> TRUE

RemoteSheetAfter(req, sh) ==
    CASE req.method = "update" -> StoredGrid(req.valueInputOption, req.values)
      [] req.method = "append" -> sh \o StoredGrid(req.valueInputOption, req.values)
      [] OTHER -> sh

NoResponse == [hasValues |-> FALSE, values |-> <<>>, updatedCells |-> 0,
               newId |-> 0, files |-> <<>>]

\* The spreadsheets the file-listing service knows, in listing order.
DriveFiles == <<"abc123", "def456">>

\* The document the remote service answers with; fresh is the id the service
\* gives a newly created spreadsheet or form.
RemoteResponse(req, sh, fresh) ==
    CASE req.method = "get" ->
           [NoResponse EXCEPT !.hasValues = (sh # <<>>), !.values = sh]
      [] req.method \in {"update", "append"} ->
           [NoResponse EXCEPT !.updatedCells = CellCount(req.values)]
      [] req.method = "files.list" ->
           [NoResponse EXCEPT !.files =
               IF req.pageSize < Len(DriveFiles)
               THEN SubSeq(DriveFiles, 1, req.pageSize) ELSE DriveFiles]
      [] OTHER -> [NoResponse EXCEPT !.newId = fresh]

\* ---------------------------------------------------------------- rendering
\* A text is a sequence of tokens <<kind, value>>; white space is left out.
Punct(p) == <<"punct", p>>
Str(v) == <<"string", v>>
Num(n) == <<"number", n>>

RECURSIVE JsonCells(_)
JsonCells(row) ==
    IF row = <<>> THEN <<>>
    ELSE IF Len(row) = 1 THEN <<Str(row[1])>>
    ELSE <<Str(row[1]), Punct(",")>> \o JsonCells(Tail(row))

JsonRow(row) == <<Punct("[")>> \o JsonCells(row) \o <<Punct("]")>>

RECURSIVE JsonRows(_)
JsonRows(g) ==
    IF g = <<>> THEN <<>>
    ELSE IF Len(g) = 1 THEN JsonRow(g[1])
    ELSE JsonRow(g[1]) \o <<Punct(",")>> \o JsonRows(Tail(g))

\* json.dumps(values, indent=2) of a list of lists of strings (line 117)
JsonDumps(g) == <<Punct("[")>> \o JsonRows(g) \o <<Punct("]")>>

\* The inverse of json.dumps on such a text: what the host decodes.
RECURSIVE ParseJson(_, _, _, _)
ParseJson(toks, depth, g, row) ==
    IF toks = <<>> THEN g
    ELSE LET t == Head(toks)
             rest == Tail(toks)
         IN  CASE t = Punct("[") ->
                    IF depth = 0 THEN ParseJson(rest, 1, g, row)
                    ELSE ParseJson(rest, 2, g, <<>>)
               [] t = Punct("]") ->
                    IF depth = 2 THEN ParseJson(rest, 1, Append(g, row), <<>>)
                    ELSE ParseJson(rest, 0, g, row)
               [] t[1] = "string" -> ParseJson(rest, depth, g, Append(row, t[2]))
               [] OTHER -> ParseJson(rest, depth, g, row)

JsonLoads(text) == ParseJson(text, 0, <<>>, <<>>)

RECURSIVE JsonFiles(_)
JsonFiles(fs) ==
    IF fs = <<>> THEN <<>>
    ELSE <<Punct("{"), Str("name"), Str(Head(fs)), Str("id"), Str(Head(fs)),
           Str("url"), Str(Head(fs)), Punct("}")>> \o JsonFiles(Tail(fs))

RECURSIVE JoinCells(_)
JoinCells(row) ==
    IF row = <<>> THEN <<>>
    ELSE IF Len(row) = 1 THEN <<Str(row[1])>>
    ELSE <<Str(row[1]), Punct(" | ")>> \o JoinCells(Tail(row))

RECURSIVE JoinRows(_)
JoinRows(g) ==
    IF g = <<>> THEN <<>>
    ELSE IF Len(g) = 1 THEN JoinCells(g[1])
    ELSE JoinCells(g[1]) \o <<Punct("\n")>> \o JoinRows(Tail(g))

\* result.get('values', []) at lines 116 and 248
ValuesOf(resp) == IF resp.hasValues THEN resp.values ELSE <<>>

\* The text each function returns from the remote response
\* (lines 88-95, 116-117, 143, 169, 192-195, 223-226, 248-255).
Render(t, resp) ==
    CASE t = "list_spreadsheets" ->
           <<Punct("[")>> \o JsonFiles(resp.files) \o <<Punct("]")>>
      [] t = "read_sheet" -> JsonDumps(ValuesOf(resp))
      [] t = "get_sheet_resource" -> JoinRows(ValuesOf(resp))
      [] t = "write_sheet" -> <<Str("Updated"), Num(resp.updatedCells), Str("cells")>>
      [] t = "append_sheet" -> <<Str("Appended"), Num(resp.updatedCells), Str("cells")>>
      [] t = "create_spreadsheet" ->
           <<Punct("{"), Str("spreadsheet_id"), Num(resp.newId), Str("url"),
             Num(resp.newId), Punct("}")>>
      [] OTHER ->
           <<Punct("{"), Str("form_id"), Num(resp.newId), Str("url"),
             Num(resp.newId), Punct("}")>>

\* -------------------------------------------------------------------- state
VARIABLES
    clock,        \* wall clock, read by creds.valid / creds.expired
    tokenFile,    \* token.pickle beside the script (line 32)
    sheet,        \* the remote grid of abc123 / Sheet1
    pc,           \* where the running invocation is; "idle" between invocations
    tool,         \* the registered function being run
    args,         \* its parameter map
    creds,        \* the local `creds` of get_credentials, then of the factory
    service,      \* the local `service` of the function
    result,       \* the text handed back to the host
    error,        \* the step that raised, when pc = "failed"
    trace,        \* the side-effecting steps this invocation has attempted, in order
    calls,        \* invocations started so far
    fileAtStart,  \* tokenFile when the running invocation began
    sheetAtStart, \* sheet when the running invocation began
    prev          \* the previous invocation, when it was a write or an append that succeeded

vars == <<clock, tokenFile, sheet, pc, tool, args, creds,
          service, result, error, trace, calls, fileAtStart, sheetAtStart, prev>>

historyVars == <<calls, fileAtStart, sheetAtStart, prev>>

NoService == [api |-> "none", creds |-> NoCreds, builtBy |-> 0]
NoResult == [kind |-> "none", text |-> <<>>]
TextResult(t) == [kind |-> "text", text |-> t]
NoPrev == [tool |-> "none", args |-> NoArgs, before |-> <<>>]

InitialFiles ==
    {AbsentFile, CorruptFile} \cup
    {PickleFile(Cred(t, r, e)) : t \in {NoToken, 1}, r \in BOOLEAN, e \in {NoExpiry, 1, 2}}

Init ==
    /\ clock = 1
    /\ tokenFile \in InitialFiles
    /\ sheet \in {<<>>, <<<<"x", "y">>>>}
    /\ pc = "idle"
    /\ tool = "none"
    /\ args = NoArgs
    /\ creds = NoCreds
    /\ service = NoService
    /\ result = NoResult
    /\ error = "none"
    /\ trace = <<>>
    /\ calls = 0
    /\ fileAtStart = AbsentFile
    /\ sheetAtStart = <<>>
    /\ prev = NoPrev

\* The access token the identity provider mints in this invocation: tokens
\* are opaque and never repeat, and an invocation obtains at most one.
NewToken == calls + 1

\* Trace events: a step that completed, a step that raised.
Ok(step) == <<step, "ok">>
Raised(step) == <<step, "raised">>

\* How often the running invocation has attempted a step.
Attempts(step) == Cardinality({i \in DOMAIN trace : trace[i][1] = step})

\* An exception leaves the function: nothing catches it (no try/except in the
\* file), so the invocation ends without a result.
Raise(step, why) ==
    /\ pc' = "failed"
    /\ error' = why
    /\ trace' = Append(trace, Raised(step))

\* ------------------------------------------------------------------ actions
\* The host invokes a registered function; its first statement calls a
\* factory, which calls get_credentials (lines 56, 61, 66), whose locals start
\* at lines 28-32.
Invoke(t, a) ==
    /\ pc = "idle"
    /\ calls < MaxCalls
    /\ pc' = "load"
    /\ tool' = t
    /\ args' = a
    /\ creds' = NoCreds
    /\ service' = NoService
    /\ result' = NoResult
    /\ error' = "none"
    /\ trace' = <<Ok("get_credentials")>>
    /\ calls' = calls + 1
    /\ fileAtStart' = tokenFile
    /\ sheetAtStart' = sheet
    /\ UNCHANGED <<clock, tokenFile, sheet, prev>>

\* lines 35-37: if os.path.exists: open, pickle.load
Load ==
    /\ pc = "load"
    /\ \/ /\ tokenFile.kind = "absent"
          /\ pc' = "check"
          /\ UNCHANGED <<creds, error, trace>>
       \/ /\ tokenFile.kind # "absent"
          /\ Raise("load", "open")
          /\ UNCHANGED creds
       \/ /\ tokenFile.kind = "corrupt"
          /\ Raise("load", "unpickle")
          /\ UNCHANGED creds
       \/ /\ tokenFile.kind = "pickle"
          /\ creds' = Unpickle(tokenFile.bytes)
          /\ pc' = "check"
          /\ trace' = Append(trace, Ok("load"))
          /\ UNCHANGED error
    /\ UNCHANGED <<clock, tokenFile, sheet, tool, args, service, result,
                   historyVars>>

\* lines 40-43 and 52: which branch get_credentials takes
Check ==
    /\ pc = "check"
    /\ pc' = IF NeedsLogin(creds, clock)
             THEN IF CanRefresh(creds, clock) THEN "refresh" ELSE "consent"
             ELSE "build"
    /\ UNCHANGED <<clock, tokenFile, sheet, tool, args, creds, service,
                   result, error, trace, historyVars>>

\* a refresh whose failure falls back to the consent flow
RefreshWithFallback ==
    /\ pc = "refresh"
    /\ \/ /\ creds' = [creds EXCEPT !.token = NewToken, !.expiry = clock + Lifetime]
          /\ pc' = "persist"
          /\ trace' = Append(trace, Ok("refresh"))
       \/ /\ pc' = "consent"
          /\ trace' = Append(trace, Raised("refresh"))
          /\ UNCHANGED creds
    /\ UNCHANGED <<clock, tokenFile, sheet, tool, args, service, result, error,
                   historyVars>>

\* line 42: creds.refresh(Request())
Refresh ==
    /\ pc = "refresh"
    /\ \/ /\ creds' = [creds EXCEPT !.token = NewToken, !.expiry = clock + Lifetime]
          /\ pc' = "persist"
          /\ trace' = Append(trace, Ok("refresh"))
          /\ UNCHANGED error
       \/ /\ Raise("refresh", "refresh")
          /\ UNCHANGED creds
    /\ UNCHANGED <<clock, tokenFile, sheet, tool, args, service, result,
                   historyVars>>

\* lines 44-46: the installed-app consent flow
Consent ==
    /\ pc = "consent"
    /\ \/ /\ \E rt \in BOOLEAN : creds' = Cred(NewToken, rt, clock + Lifetime)
          /\ pc' = "persist"
          /\ trace' = Append(trace, Ok("consent"))
          /\ UNCHANGED error
       \/ /\ Raise("consent", "consent")
          /\ UNCHANGED creds
    /\ UNCHANGED <<clock, tokenFile, sheet, tool, args, service, result,
                   historyVars>>

\* a save that returns without writing the file
PersistNoWrite ==
    /\ pc = "persist"
    /\ pc' = "build"
    /\ trace' = Append(trace, Ok("persist"))
    /\ UNCHANGED <<clock, tokenFile, sheet, tool, args, creds, service,
                   result, error, historyVars>>

\* lines 49-50: open(token_path, 'wb') truncates the file, pickle.dump fills it
Persist ==
    /\ pc = "persist"
    /\ \/ /\ tokenFile' = PickleFile(creds)
          /\ pc' = "build"
          /\ trace' = Append(trace, Ok("persist"))
          /\ UNCHANGED error
       \/ /\ Raise("persist", "persist")
          /\ UNCHANGED tokenFile
       \/ /\ Raise("persist", "persist")
          /\ tokenFile' = CorruptFile
    /\ UNCHANGED <<clock, sheet, tool, args, creds, service, result,
                   historyVars>>

\* lines 52 and 57 / 62 / 67: get_credentials returns, the factory builds the handle
Build ==
    /\ pc = "build"
    /\ service' = [api |-> ApiOf(tool), creds |-> creds, builtBy |-> calls]
    /\ pc' = "call"
    /\ trace' = Append(trace, Ok("build"))
    /\ UNCHANGED <<clock, tokenFile, sheet, tool, args, creds, result,
                   error, historyVars>>

\* The remote service carries out the request.
Execute(req) ==
    /\ RemoteAccepts(req, sheet)
    /\ sheet' = RemoteSheetAfter(req, sheet)

\* a remote call that is issued a second time before the function returns
CallTwice ==
    /\ pc = "call"
    /\ \/ /\ Execute(RequestOf(tool, args))
          /\ result' = TextResult(Render(tool,
                 RemoteResponse(RequestOf(tool, args), sheet, calls)))
          /\ pc' = IF Attempts("call") = 0 THEN "call" ELSE "done"
          /\ trace' = Append(trace, Ok("call"))
          /\ UNCHANGED error
       \/ /\ Raise("call", "call")
          /\ UNCHANGED <<sheet, result>>
    /\ UNCHANGED <<clock, tokenFile, tool, args, creds, service, historyVars>>

\* the .execute() of each function (lines 82-86, 111-114, 136-141, 162-167, 190,
\* 221, 243-246) and the return of its text
Call ==
    /\ pc = "call"
    /\ \/ /\ Execute(RequestOf(tool, args))
          /\ result' = TextResult(Render(tool,
                 RemoteResponse(RequestOf(tool, args), sheet, calls)))
          /\ pc' = "done"
          /\ trace' = Append(trace, Ok("call"))
          /\ UNCHANGED error
       \/ /\ Raise("call", "call")
          /\ UNCHANGED <<sheet, result>>
    /\ UNCHANGED <<clock, tokenFile, tool, args, creds, service, historyVars>>

\* The host receives the text or the failure; the function's locals are gone.
Finish ==
    /\ pc \in {"done", "failed"}
    /\ prev' = IF pc = "done" /\ tool \in {"write_sheet", "append_sheet"}
               THEN [tool |-> tool, args |-> args, before |-> sheetAtStart]
               ELSE NoPrev
    /\ pc' = "idle"
    /\ tool' = "none"
    /\ args' = NoArgs
    /\ creds' = NoCreds
    /\ service' = NoService
    /\ result' = NoResult
    /\ error' = "none"
    /\ trace' = <<>>
    /\ fileAtStart' = AbsentFile
    /\ sheetAtStart' = <<>>
    /\ UNCHANGED <<clock, tokenFile, sheet, calls>>

\* Time passes between invocations.
Tick ==
    /\ pc = "idle"
    /\ clock < MaxTime
    /\ clock' = clock + 1
    /\ UNCHANGED <<tokenFile, sheet, pc, tool, args, creds, service,
                   result, error, trace, historyVars>>

Next ==
    \/ \E t \in Tools : \E a \in ArgSet(t) : Invoke(t, a)
    \/ Load
    \/ Check
    \/ Refresh
    \/ Consent
    \/ Persist
    \/ Build
    \/ Call
    \/ Finish
    \/ Tick

Spec == Init /\ [][Next]_vars

\* --------------------------------------------------------------- properties
\* get_credentials has returned to the factory (line 52 reached).
Acquired == pc \in {"build", "call", "done"} \/ (pc = "failed" /\ error = "call")

\* The credential token.pickle held when the running invocation began.
StartCred == Unpickle(fileAtStart.bytes)

StartValid == pc # "idle" /\ fileAtStart.kind = "pickle" /\ Valid(StartCred, clock)

StartRefreshable ==
    /\ pc # "idle"
    /\ fileAtStart.kind = "pickle"
    /\ Expired(StartCred, clock)
    /\ StartCred.refresh_token

StartNeedsConsent ==
    /\ pc # "idle"
    /\ \/ fileAtStart.kind = "absent"
       \/ /\ fileAtStart.kind = "pickle"
          /\ ~Valid(StartCred, clock)
          /\ ~(Expired(StartCred, clock) /\ StartCred.refresh_token)

\* Where a step that was attempted once sits in the trace.
IndexOf(step) == CHOOSE i \in DOMAIN trace : trace[i][1] = step

MintedNow(c) ==
    /\ c.token = NewToken
    /\ Attempts("refresh") + Attempts("consent") = 1
    /\ \E i \in DOMAIN trace : trace[i] \in {Ok("refresh"), Ok("consent")}

\* C1: the credential inside a built service handle has a token that is not
\* expired, or it was refreshed or newly created by consent in the
\* get_credentials call of the same invocation; a stale one is never used.
C1_NeverStale ==
    service.api # "none" =>
        /\ service.creds = creds
        /\ ~creds.isNone
        /\ Valid(creds, clock) \/ MintedNow(creds)

C1_Witness ==
    /\ pc = "call"
    /\ service.api = "sheets"
    /\ trace[3] = Ok("refresh")
    /\ calls > 1

\* C2: when token.pickle holds a valid credential, get_credentials returns
\* exactly that credential, attempts no refresh and no consent, and leaves
\* the file as it was (the call can only end early if the file cannot be
\* opened).
C2_ValidReturnedUnchanged ==
    StartValid =>
        /\ Attempts("refresh") = 0
        /\ Attempts("consent") = 0
        /\ Attempts("persist") = 0
        /\ tokenFile = fileAtStart
        /\ Acquired => creds = StartCred
        /\ pc = "failed" => error \in {"open", "call"}

C2_Witness ==
    /\ StartValid
    /\ pc = "call"
    /\ creds = StartCred
    /\ creds.refresh_token

\* C3: when token.pickle holds an expired credential with a refresh token,
\* get_credentials attempts exactly one refresh and no consent, and the
\* refreshed credential is in the file before get_credentials returns it.
C3_RefreshOncePersistThenReturn ==
    StartRefreshable =>
        /\ Attempts("refresh") <= 1
        /\ Attempts("consent") = 0
        /\ Acquired =>
              /\ SubSeq(trace, 1, 4) =
                    <<Ok("get_credentials"), Ok("load"), Ok("refresh"), Ok("persist")>>
              /\ creds = [StartCred EXCEPT !.token = NewToken, !.expiry = clock + Lifetime]
              /\ tokenFile = PickleFile(creds)

C3_Witness ==
    /\ StartRefreshable
    /\ pc = "build"
    /\ tokenFile = PickleFile(creds)
    /\ creds.token # StartCred.token

\* C4: when there is no token.pickle, or it holds a credential that is
\* invalid without being expired-with-a-refresh-token, get_credentials
\* attempts the consent flow exactly once and no refresh, and the new
\* credential is in the file before get_credentials returns it.
C4_ConsentOncePersistThenReturn ==
    StartNeedsConsent =>
        /\ Attempts("refresh") = 0
        /\ Attempts("consent") <= 1
        /\ Acquired =>
              /\ Attempts("consent") = 1
              /\ trace[IndexOf("consent")] = Ok("consent")
              /\ trace[IndexOf("consent") + 1] = Ok("persist")
              /\ Attempts("build") = 1 => IndexOf("consent") + 1 < IndexOf("build")
              /\ creds.token = NewToken
              /\ tokenFile = PickleFile(creds)

C4_Witness ==
    /\ StartNeedsConsent
    /\ fileAtStart.kind = "pickle"
    /\ Expired(StartCred, clock)
    /\ pc = "build"
    /\ tokenFile = PickleFile(creds)

\* C5: a token.pickle that cannot be deserialized is treated as if no file
\* were there: the load does not fail the call, which goes on to the consent
\* flow.
C5_CorruptTreatedAsMissing ==
    (pc # "idle" /\ fileAtStart.kind = "corrupt") => error # "unpickle"

\* C6: a step that raises ends the invocation as a failure without a text
\* result; nothing follows it, no step is attempted twice, and a refresh
\* that raised is followed by neither consent nor a write of the file.
C6_NoRetryNoMasking ==
    /\ \A i \in DOMAIN trace :
          trace[i][2] = "raised" =>
              /\ i = Len(trace)
              /\ pc = "failed"
              /\ error # "none"
              /\ result.kind = "none"
    /\ pc = "failed" => trace[Len(trace)][2] = "raised"
    /\ \A step \in {"load", "refresh", "consent", "persist", "build", "call"} :
          Attempts(step) <= 1
    /\ (\E i \in DOMAIN trace : trace[i] = Raised("refresh")) =>
          /\ Attempts("consent") = 0
          /\ Attempts("persist") = 0
          /\ tokenFile = fileAtStart

C6_Witness ==
    /\ pc = "failed"
    /\ error = "refresh"
    /\ trace[Len(trace)] = Raised("refresh")
    /\ calls > 1

\* C7: an invocation that returns a text has called get_credentials once,
\* then built one handle of its own (for the API of the function), then
\* issued one remote call through it, in that order.
C7_OneAcquireOneHandleOneCall ==
    pc = "done" =>
        /\ result.kind = "text"
        /\ Attempts("get_credentials") = 1
        /\ Attempts("build") = 1
        /\ Attempts("call") = 1
        /\ trace[1] = Ok("get_credentials")
        /\ IndexOf("build") + 1 = IndexOf("call")
        /\ IndexOf("call") = Len(trace)
        /\ service.builtBy = calls
        /\ service.api = ApiOf(tool)
        /\ service.creds = creds

C7_Witness ==
    /\ pc = "done"
    /\ tool = "create_form"
    /\ service.api = "forms"
    /\ calls > 1

\* The running read addresses the range the previous invocation wrote to.
ReadsAfter(t) ==
    /\ pc = "done"
    /\ tool = "read_sheet"
    /\ prev.tool = t
    /\ prev.args.spreadsheet_id = args.spreadsheet_id
    /\ prev.args.range_name = args.range_name

\* C8: a read_sheet of a range right after a successful write_sheet of grid
\* G to that range returns the JSON text of a grid equal to G.
C8_WriteReadRoundTrip ==
    ReadsAfter("write_sheet") => JsonLoads(result.text) = prev.args.values

C8_Witness ==
    /\ ReadsAfter("write_sheet")
    /\ Len(prev.args.values) = 2
    /\ JsonLoads(result.text) = <<<<"=1+1", "b">>, <<"c">>>>

\* C9: append_sheet leaves the rows already there and adds its rows after
\* them, and a read_sheet right after it returns the old rows followed by
\* the appended rows.
C9_AppendKeepsRowsInOrder ==
    /\ (pc = "done" /\ tool = "append_sheet") => sheet = sheetAtStart \o args.values
    /\ ReadsAfter("append_sheet") =>
          JsonLoads(result.text) = prev.before \o prev.args.values

C9_Witness ==
    /\ ReadsAfter("append_sheet")
    /\ prev.before # <<>>
    /\ prev.args.values # <<>>
    /\ Len(JsonLoads(result.text)) = Len(prev.before) + Len(prev.args.values)

\* C10: once get_credentials has returned, token.pickle holds exactly the
\* credential it returned; the file is written at most once per call, only
\* right after a refresh or a consent that succeeded, and never when the
\* loaded credential was valid.
C10_FileHoldsReturnedCredential ==
    /\ Acquired =>
          /\ tokenFile.kind = "pickle"
          /\ Unpickle(tokenFile.bytes) = creds
    /\ Attempts("persist") <= 1
    /\ Attempts("persist") = 1 =>
          /\ trace[IndexOf("persist") - 1] \in {Ok("refresh"), Ok("consent")}
          /\ ~StartValid
    /\ Attempts("persist") = 0 => tokenFile = fileAtStart \/ pc = "idle"

C10_Witness ==
    /\ Acquired
    /\ Attempts("persist") = 1
    /\ tokenFile # fileAtStart
    /\ Unpickle(tokenFile.bytes) = creds
    /\ calls > 1

====
